---- MODULE Spec2Model ----
(***************************************************************************)
(* Model of the mindcraft-gui first-run installer:                         *)
(*   src/src/installer.py  InstallerWorker.run (the provisioning pipeline) *)
(*                         Installer (the supervising window)              *)
(*   src/src/utils.py      is_tool_installed, run_command, stream_command, *)
(*                         download_file                                   *)
(*   src/src/main.py       MainWindow.__init__ (the caller's gate)         *)
(*                                                                         *)
(* The worker's run() is split into its numbered sections, one action per  *)
(* section; each action appends the log lines of the section to `emitted`  *)
(* and either moves on to the next section or records the exception that   *)
(* escapes the section and jumps to the outer handler.  Outcomes of        *)
(* external operations (HTTP, child processes, the filesystem) are chosen  *)
(* with \E at the step that performs them.                                 *)
(***************************************************************************)
EXTENDS Integers, Sequences, FiniteSets, TLC

\* ------------------------------------------------------------------ bounds
\* Longest output (in lines) of the streamed 'npm install' child.
MaxLines == 2
\* Most worker events that may wait in the supervisor's event queue.
MaxQueue == 2
\* Largest response body, in mebibytes, a download is tried with.
MaxMiB == 2

\* --------------------------------------------------------------- constants
Tools == {"git", "node", "npm", "winget"}
\* Directories of the search path: "sys" stands for whatever was on PATH when
\* the process started; the other two are the conventional install locations
\* (installer.py 141-144).
NodeDir == "ProgramFiles/nodejs"
GitDir  == "ProgramFiles/Git/cmd"
Dirs == {"sys", NodeDir, GitDir}

NoExc == [type |-> "", msg |-> ""]
Exc(t, m) == [type |-> t, msg |-> m]

\* A log line is <<text, argument>>.
L(text) == <<text, "">>
LA(text, arg) == <<text, arg>>
\* The worker's events: log(str) and finished(bool)  (installer.py 42-43).
LogEv(line) == [sig |-> "log", line |-> line, ok |-> FALSE]
FinEv(b) == [sig |-> "finished", line |-> L(""), ok |-> b]
RECURSIVE LogEvs(_)
LogEvs(lines) ==
    IF lines = <<>> THEN <<>> ELSE <<LogEv(Head(lines))>> \o LogEvs(Tail(lines))

\* ---------------------------------------------------------- utils.py model
\* shutil.which: the tool resolves iff some directory of the process's search
\* path holds it.
which(tool, P, H) == \E d \in P : tool \in H[d]

\* Parameters run_command declares (utils.py 66).
run_command_params == {"log_func", "command", "cwd", "shell", "check", "text"}

\* What subprocess.run meets (utils.py 71-80): the child is launched and
\* exits with `exit`, having printed something or nothing; or the executable
\* (with shell=True, the shell) cannot be found; or the launch fails otherwise.
Child(launch, exit, out) == [launch |-> launch, exit |-> exit, out |-> out]
Exited(exit) == Child("ok", exit, FALSE)
Children ==
    {Child("ok", x, o) : x \in {0, 1}, o \in BOOLEAN} \cup
    {Child("notFound", 0, FALSE), Child("error", 0, FALSE)}

\* A runner that reports a nonzero exit as a warning and returns.
run_command_lenient(cmd, kwargs, child) ==
    [exc |-> NoExc,
     logs |-> <<LA("Running command", cmd), LA("Command finished successfully", cmd)>>,
     launched |-> TRUE]

\* run_command (utils.py 66-115) called with keyword arguments `kwargs`.  A
\* keyword the signature does not declare is a TypeError raised by the call
\* itself, before the body runs.  check is True at every call of the program
\* (the default, or passed as True at 131), so a nonzero exit is a
\* CalledProcessError inside subprocess.run.
run_command_on(cmd, kwargs, child) ==
    LET running == <<LA("Running command", cmd)>>
        captured(tag) == IF child.out THEN <<LA(tag, cmd)>> ELSE <<>>
    IN  IF ~(kwargs \subseteq run_command_params)
        THEN [exc |-> Exc("TypeError", "unexpected keyword argument"),
              logs |-> <<>>, launched |-> FALSE]
        ELSE IF child.launch = "notFound"
        THEN [exc |-> Exc("FileNotFoundError", cmd),
              logs |-> running \o <<LA("ERROR: Command not found", cmd)>>,
              launched |-> FALSE]
        ELSE IF child.launch = "error"
        THEN [exc |-> Exc("Exception", cmd),
              logs |-> running \o <<LA("ERROR: An unexpected error occurred while running command", cmd),
                                    LA("Error details", cmd), L("traceback")>>,
              launched |-> FALSE]
        ELSE IF child.exit = 0
        THEN [exc |-> NoExc,
              logs |-> running \o captured("Command stdout") \o
                       <<LA("Command finished successfully", cmd)>>,
              launched |-> TRUE]
        ELSE [exc |-> Exc("CalledProcessError", cmd),
              logs |-> running \o <<LA("ERROR: Command failed", cmd),
                                    LA("Return code", cmd)>> \o captured("stdout"),
              launched |-> TRUE]

\* run_command for a child that is launched, prints nothing and exits with
\* `exit`: the silent installers the pipeline runs.
run_command(cmd, kwargs, exit) == run_command_on(cmd, kwargs, Exited(exit))

\* A probe that reports a tool missing whenever the version check is skipped.
is_tool_installed_strict(tool_name, version_flag, exit, P, H) ==
    [ret |-> which(tool_name, P, H) /\ version_flag # "None", launched |-> FALSE,
     logs |-> <<LA("Checking if installed", tool_name)>>]

\* A probe that believes the version query: a failed query means "missing".
is_tool_installed_doubting(tool_name, version_flag, exit, P, H) ==
    [ret |-> which(tool_name, P, H) /\ version_flag = "None", launched |-> FALSE,
     logs |-> <<LA("Checking if installed", tool_name)>>]

\* A probe that assumes the tool is there once it has been asked for.
is_tool_installed_assuming(tool_name, version_flag, exit, P, H) ==
    [ret |-> TRUE, launched |-> FALSE,
     logs |-> <<LA("Checking if installed", tool_name),
                LA("found (skipping version check)", tool_name)>>]

\* is_tool_installed (utils.py 117-141).  version_flag is "None" or a flag.
\* `exit` is the exit code the version query would have.
is_tool_installed(tool_name, version_flag, exit, P, H) ==
    IF ~which(tool_name, P, H)
    THEN [ret |-> FALSE, launched |-> FALSE,
          logs |-> <<LA("Checking if installed", tool_name),
                     LA("not found in PATH", tool_name)>>]
    ELSE IF version_flag # "None"
    THEN LET r == run_command(tool_name,
                              {"log_func", "command", "shell", "check",
                               "capture_output"}, exit)
         IN  [ret |-> TRUE, launched |-> r.launched,
              logs |-> <<LA("Checking if installed", tool_name),
                         LA("found at", tool_name)>> \o r.logs \o
                       (IF r.exc = NoExc
                        THEN <<LA("version check successful", tool_name)>>
                        ELSE <<LA("found, but version check failed", tool_name)>>)]
    ELSE [ret |-> TRUE, launched |-> FALSE,
          logs |-> <<LA("Checking if installed", tool_name),
                     LA("found at", tool_name),
                     LA("found (skipping version check)", tool_name)>>]

\* Outcomes of one download (utils.py 143-187):
\*   "ok"          the whole body was written
\*   "failRequest" requests.get / raise_for_status raised (nothing opened)
\*   "failOpen"    open(destination, 'wb') raised IOError
\*   "failStream"  the stream or a write failed after the file was opened
DownloadOutcomes == {"ok", "failRequest", "failOpen", "failStream"}

\* A download that leaves whatever it wrote behind when it fails.
download_file_no_cleanup(url, outcome, existed, rmOk) ==
    [ret |-> outcome = "ok",
     exists |-> (outcome \in {"ok", "failStream"}) \/ existed,
     logs |-> <<LA("Attempting to download", url)>> \o
              (IF outcome = "ok" THEN <<LA("Download complete", url)>>
               ELSE <<LA("ERROR: Failed to download", url)>>)]

\* A download that takes a stream that broke off for a complete body.
download_file_hasty(url, outcome, existed, rmOk) ==
    [ret |-> outcome \in {"ok", "failStream"},
     exists |-> (outcome \in {"ok", "failStream"}) \/ existed,
     logs |-> <<LA("Attempting to download", url), LA("Download complete", url)>>]

\* download_file (utils.py 143-187) apart from its progress lines, which
\* write_chunk gives.  `existed`: a file was at the destination before the
\* call; `rmOk`: os.remove in the cleanup succeeds.
download_file(url, outcome, existed, rmOk) ==
    LET attempt == <<LA("Attempting to download", url)>>
        mid == IF outcome = "failStream" THEN TRUE ELSE existed
        errLine == IF outcome = "failOpen"
                   THEN LA("ERROR: Could not write file", url)
                   ELSE LA("ERROR: Failed to download", url)
    IN  IF outcome = "ok"
        THEN [ret |-> TRUE, exists |-> TRUE,
              logs |-> attempt \o <<LA("Download complete", url)>>]
        ELSE IF ~mid
        THEN [ret |-> FALSE, exists |-> FALSE, logs |-> attempt \o <<errLine>>]
        ELSE IF rmOk
        THEN [ret |-> FALSE, exists |-> FALSE,
              logs |-> attempt \o <<errLine, LA("Cleaned up partial download", url)>>]
        ELSE [ret |-> FALSE, exists |-> TRUE,
              logs |-> attempt \o
                       <<errLine, LA("WARNING: Could not remove partial download", url)>>]

\* iter_content's chunk size in bytes (utils.py 152) and the mebibyte the
\* progress is counted in (159).
chunk_size == 8192
MiB == 1024 * 1024

\* A response body as iter_content delivers it: n chunks of chunk_size bytes
\* and then, when last > 0, a final chunk of `last` bytes.
Body(n, last) == [n |-> n, last |-> last]
NoBody == Body(0, 0)
Chunks(body) == body.n + (IF body.last > 0 THEN 1 ELSE 0)
ChunkLen(body, i) == IF i <= body.n THEN chunk_size ELSE body.last
BodyBytes(body) == body.n * chunk_size + body.last
\* Bodies of up to MaxMiB mebibytes, around the places where a mebibyte
\* completes.
Bodies ==
    {Body(n, l) : n \in {0, 1, MiB \div chunk_size - 1, MiB \div chunk_size,
                         MaxMiB * (MiB \div chunk_size)},
                  l \in {0, 1}}

\* One pass of the loop body (utils.py 155-166) for a chunk of `len` bytes:
\* st holds the loop's variables and the progress lines logged so far.
\* total_size is the Content-Length, 0 when the header is absent (149).
write_chunk(st, len, total_size) ==
    LET written == st.bytes_downloaded + len
        current_mb == written \div MiB
    IN  IF current_mb > st.last_logged_mb
        THEN [bytes_downloaded |-> written, last_logged_mb |-> current_mb,
              logs |-> Append(st.logs,
                              LA(IF total_size > 0
                                 THEN "Downloaded MB / total MB (percent)"
                                 ELSE "Downloaded MB...",
                                 ToString(current_mb)))]
        ELSE [st EXCEPT !.bytes_downloaded = written]

\* str.rstrip on a child's output line, a line being <<body, trailing>>
\* (utils.py 35).
rstrip(line) == line[1]

\* What a streamed child may print: the first n lines of its output, line i
\* being <<i, trailing whitespace>>.
ChildLine(i) == <<ToString(i), IF i % 2 = 0 THEN " " ELSE "">>
ChildOutputs == {[i \in 1..n |-> ChildLine(i)] : n \in 0..MaxLines}

RECURSIVE StreamLogs(_)
StreamLogs(lines) ==
    IF lines = <<>> THEN <<>>
    ELSE <<LA("child output", rstrip(Head(lines)))>> \o StreamLogs(Tail(lines))

\* A runner that forwards the child's output newest line first.
RECURSIVE Reversed(_)
Reversed(q) == IF q = <<>> THEN <<>> ELSE Reversed(Tail(q)) \o <<Head(q)>>
stream_command_unordered(cmd, lines, exit) ==
    [ret |-> (exit = 0),
     logs |-> <<LA("Streaming command", cmd)>> \o Reversed(StreamLogs(lines)) \o
              (IF exit = 0
               THEN <<LA("Command finished successfully", cmd)>>
               ELSE <<LA("ERROR: Command failed", cmd)>>)]

\* A runner that forwards the child's output only when the child succeeded.
stream_command_buffered(cmd, lines, exit) ==
    [ret |-> (exit = 0),
     logs |-> <<LA("Streaming command", cmd)>> \o
              (IF exit = 0
               THEN StreamLogs(lines) \o <<LA("Command finished successfully", cmd)>>
               ELSE <<LA("ERROR: Command failed", cmd)>>)]

\* stream_command (utils.py 11-64) for a child that prints `lines` and exits
\* with `exit`.
stream_command(cmd, lines, exit) ==
    [ret |-> (exit = 0),
     logs |-> <<LA("Streaming command", cmd)>> \o StreamLogs(lines) \o
              (IF exit = 0
               THEN <<LA("Command finished successfully", cmd)>>
               ELSE <<LA("ERROR: Command failed", cmd)>>)]

\* What can go wrong in stream_command's try block (utils.py 18-38):
\*   "notFound"     Popen raises FileNotFoundError
\*   "launchError"  Popen raises something else: there is no process
\*   "readError"    reading the stream raises after `lines` were forwarded
StreamFaults == {"notFound", "launchError", "readError"}

\* A runner that lets the error escape after logging it.
stream_command_failed_raising(cmd, fault, lines, alive, termOk) ==
    [ret |-> FALSE, exc |-> Exc("Exception", fault), terminations |-> 0,
     logs |-> <<LA("Streaming command", cmd),
                LA("ERROR: An unexpected error occurred while streaming command", cmd)>>]

\* stream_command's handlers (utils.py 48-64).  `alive`: the child is still
\* running when the handler looks (57); `termOk`: terminate and the wait of
\* at most five seconds succeed (59-60).
stream_command_failed(cmd, fault, lines, alive, termOk) ==
    LET head == <<LA("Streaming command", cmd)>>
        unexpected == <<LA("ERROR: An unexpected error occurred while streaming command", cmd),
                        LA("Error details", cmd), L("traceback")>>
    IN  IF fault = "notFound"
        THEN [ret |-> FALSE, exc |-> NoExc, terminations |-> 0,
              logs |-> head \o <<LA("ERROR: Command not found", cmd)>>]
        ELSE IF fault = "launchError"
        THEN [ret |-> FALSE, exc |-> NoExc, terminations |-> 0,
              logs |-> head \o unexpected]
        ELSE [ret |-> FALSE, exc |-> NoExc,
              terminations |-> IF alive THEN 1 ELSE 0,
              logs |-> head \o StreamLogs(lines) \o unexpected \o
                       (IF ~alive THEN <<>>
                        ELSE IF termOk
                        THEN <<L("Terminated hanging process due to exception.")>>
                        ELSE <<L("Error trying to terminate process")>>)]

ExitCodes == {0, 1}

\* ------------------------------------------------------------------- state
VARIABLES
    pc,            \* the section of run() the worker is about to execute
    success,       \* run's local `success`
    cwd,           \* the process working directory
    original_cwd,  \* run's local original_cwd ("unset" until assigned)
    fs,            \* files under the installation root
    onPath,        \* directories on the process's search path
    dirHas,        \* dirHas[d]: the tools directory d holds
    emitted,       \* every signal the worker has emitted, in order
    exc,           \* the exception travelling to the outer handler
    hist,          \* what happened in this run (history, read by no action)
    ui,            \* the window: buttons, the slot the install button fires,
                   \* the thread_/worker references, the outcome shown
    logText,       \* the lines of the log widget, in order
    delivered,     \* how many of the worker's signals the main thread handled
    logFileOk,     \* installation.log can be appended to
    logFile,       \* the lines the main thread appended to installation.log
    app            \* "running", "quit" (event loop left) or "aborted"; after
                   \* the next start of the launcher: "installer" (shown
                   \* again), "main_shown" or "main_failed"

wvars == <<pc, success, cwd, original_cwd, fs, onPath, dirHas, emitted, exc, hist>>
svars == <<ui, logText, delivered, logFileOk, logFile, app>>
vars == <<pc, success, cwd, original_cwd, fs, onPath, dirHas, emitted, exc, hist,
          ui, logText, delivered, logFileOk, logFile, app>>

\* The worker thread runs while the process lives; the model lets at most
\* MaxQueue of its signals wait in the main thread's event queue before it
\* takes its next section.
scheduled == app = "running" /\ Len(emitted) - delivered <= MaxQueue

\* Directories the process may be started in; "root" is PATH, the folder of
\* the executable (installer.py 38).
StartDirs == {"root", "elsewhere"}

\* json.dumps({"downloaded": time.time(), "settings": {}}) (installer.py 261):
\* the document as its key/value pairs; "now" is this run's clock reading.
config_document == {<<"downloaded", "now">>, <<"settings", "{}">>}
\* The document an earlier successful run left.
EarlierConfig == {<<"downloaded", "earlier">>, <<"settings", "{}">>}

NoFile == [exists |-> FALSE, doc |-> {}]
File(doc) == [exists |-> TRUE, doc |-> doc]

\* The installation root before the run: never provisioned, or left by an
\* earlier successful run.
FreshRoot ==
    [config |-> NoFile, zip |-> FALSE, folder |-> "absent",
     keysExample |-> FALSE, keys |-> FALSE, keysDoc |-> "none",
     gitInstaller |-> FALSE, nodeInstaller |-> FALSE]
ProvisionedRoot ==
    [FreshRoot EXCEPT !.config = File(EarlierConfig), !.zip = TRUE,
                      !.folder = "stale", !.keys = TRUE, !.keysDoc = "earlier"]

\* The machine before the run: the installation root and the tools already on
\* the search path.  npm is a node program, so it is never there without
\* node; a root an earlier run provisioned goes with the tools that run
\* installed.
ToolSets == {pre \in SUBSET Tools : "npm" \in pre => "node" \in pre}
Environments ==
    {[root |-> FreshRoot, pre |-> pre] : pre \in ToolSets} \cup
    {[root |-> ProvisionedRoot, pre |-> pre] :
        pre \in {t \in ToolSets : {"git", "node", "npm"} \subseteq t}}

NoHist ==
    [done |-> {}, raisedAt |-> "", winget |-> "none", gitDl |-> "none",
     gitInst |-> "none", nodeDl |-> "none", msi |-> "none", zipDl |-> "none",
     extract |-> "none", npm |-> "none", lines |-> <<>>, config |-> "none",
     fault |-> FALSE, entryCwd |-> "", hadConfig |-> FALSE, pre |-> {},
     rename |-> "none", keysBefore |-> <<FALSE, FALSE, "none">>,
     wingetGit |-> "none"]

Sections == {"prepare", "git", "node", "path", "cleanup", "archive", "npm",
             "rename", "config"}

WorkerInit ==
    /\ pc = "idle"
    /\ success = FALSE
    /\ cwd \in StartDirs
    /\ original_cwd = "unset"
    /\ onPath = {"sys"}
    /\ \E env \in Environments :
          /\ fs = env.root
          /\ dirHas = [d \in Dirs |-> IF d = "sys" THEN env.pre ELSE {}]
    /\ emitted = <<>>
    /\ exc = NoExc
    /\ hist = [NoHist EXCEPT !.entryCwd = cwd, !.hadConfig = fs.config.exists,
                             !.pre = dirHas["sys"]]

\* A pipeline that logs an escaping exception as a warning and carries on.
Leave_swallowing(section, next, logs, e, h) ==
    /\ emitted' = emitted \o LogEvs(logs)
    /\ exc' = e
    /\ pc' = next
    /\ hist' = IF e = NoExc THEN [h EXCEPT !.done = @ \cup {section}]
               ELSE [h EXCEPT !.raisedAt = section]

\* How a section ends: its lines are emitted, and control either reaches the
\* next section or, when exception e escapes, the outer handler (268).
Leave(section, next, logs, e, h) ==
    /\ emitted' = emitted \o LogEvs(logs)
    /\ exc' = e
    /\ IF e = NoExc
       THEN /\ pc' = next
            /\ hist' = [h EXCEPT !.done = @ \cup {section}]
       ELSE /\ pc' = "except"
            /\ hist' = [h EXCEPT !.raisedAt = section]

Install(H, dir, tools) == [H EXCEPT ![dir] = @ \cup tools]

\* ----------------------------------------------- InstallerWorker.run, 46-64
PrepareOutcomes == {"ok", "failMakedirs", "failChdir"}

run_prepare ==
    /\ scheduled
    /\ pc = "prepare"
    /\ \E o \in PrepareOutcomes :
         LET started == <<L("Installation process started."),
                          L("Ensuring base directory exists"),
                          L("Ensuring installer directory exists")>>
         IN  /\ original_cwd' = IF o = "failMakedirs" THEN "unset" ELSE cwd
             /\ cwd' = IF o = "ok" THEN "root" ELSE cwd
             /\ Leave("prepare", "git",
                      IF o = "ok"
                      THEN started \o <<L("Changed working directory")>>
                      ELSE started,
                      IF o = "ok" THEN NoExc ELSE Exc("OSError", o),
                      [hist EXCEPT !.fault = (o # "ok")])
    /\ UNCHANGED <<success, fs, onPath, dirHas, svars>>

\* ---------------------------------------------- InstallerWorker.run, 67-104
\* The winget attempt (73-88): the value winget_available has afterwards, the
\* directory contents and the lines logged.  `where` is the directory the
\* package lands in: one the process already searches, or the conventional
\* location, which only a new session's PATH would list.
\* An attempt that takes winget's exit code for the result: no fallback when
\* the re-probe does not find git (84 left out).
winget_attempt_trusting(wingetExit, where, verExit, P, H) ==
    LET r  == run_command("winget install Git.Git", {"log_func", "command"}, wingetExit)
        H1 == IF r.exc = NoExc THEN Install(H, where, {"git"}) ELSE H
        p  == is_tool_installed("git", "--version", verExit, P, H1)
    IN  [winget_available |-> r.exc = NoExc, H |-> H1,
         logs |-> <<L("Winget detected")>> \o r.logs \o
                  (IF r.exc = NoExc THEN p.logs
                   ELSE <<L("Winget installation failed. Falling back to manual download.")>>)]

winget_attempt(wingetExit, where, verExit, P, H) ==
    LET r  == run_command("winget install Git.Git", {"log_func", "command"}, wingetExit)
        H1 == IF r.exc = NoExc THEN Install(H, where, {"git"}) ELSE H
        p  == is_tool_installed("git", "--version", verExit, P, H1)
    IN  IF r.exc # NoExc
        THEN [winget_available |-> FALSE, H |-> H1,
              logs |-> <<L("Winget detected")>> \o r.logs \o
                       <<L("Winget installation failed. Falling back to manual download.")>>]
        ELSE [winget_available |-> p.ret, H |-> H1,
              logs |-> <<L("Winget detected")>> \o r.logs \o p.logs \o
                       (IF p.ret
                        THEN <<L("Git installed successfully via winget.")>>
                        ELSE <<L("Git installation via winget may have failed. Will try manual download.")>>)]

\* The manual installation (91-102) once the download has returned `d`.
manual_git(d, instExit, verExit, P, H) ==
    IF d.ret
    THEN LET r  == run_command("Git-2.49.0-64-bit.exe", {"log_func", "command"}, instExit)
             H1 == IF r.exc = NoExc THEN Install(H, GitDir, {"git"}) ELSE H
             p  == is_tool_installed("git", "--version", verExit, P, H1)
         IN  IF r.exc # NoExc
             THEN [exc |-> r.exc, H |-> H1,
                   logs |-> d.logs \o <<L("Running Git installer")>> \o r.logs]
             ELSE [exc |-> NoExc, H |-> H1,
                   logs |-> d.logs \o <<L("Running Git installer")>> \o r.logs \o
                            <<L("Git installation command finished.")>> \o p.logs \o
                            (IF p.ret THEN <<>>
                             ELSE <<L("WARNING: Git installed, but 'git' command might not be in PATH yet.")>>)]
    ELSE [exc |-> Exc("RuntimeError", "Git download failed."), H |-> H,
          logs |-> d.logs \o <<L("ERROR: Failed to download Git installer.")>>]

run_git ==
    /\ scheduled
    /\ pc = "git"
    /\ \E wingetExit \in ExitCodes, where \in {"sys", GitDir},
          instExit \in ExitCodes, verExit \in ExitCodes,
          dl \in DownloadOutcomes, rmOk \in BOOLEAN :
         LET header == <<L("--- Checking/Installing Git ---")>>
             p1 == is_tool_installed("git", "--version", verExit, onPath, dirHas)
             hasWinget == which("winget", onPath, dirHas)
             w  == IF hasWinget
                   THEN winget_attempt(wingetExit, where, verExit, onPath, dirHas)
                   ELSE [winget_available |-> FALSE, H |-> dirHas, logs |-> <<>>]
             \* line 90: the probe runs only when winget_available is false
             p3 == is_tool_installed("git", "--version", verExit, onPath, w.H)
             manual == ~w.winget_available /\ ~p3.ret
             d  == download_file("git-installer", dl, fs.gitInstaller, rmOk)
             m  == manual_git(d, instExit, verExit, onPath, w.H)
             h1 == [hist EXCEPT !.winget = IF ~hasWinget THEN "none"
                                           ELSE IF wingetExit = 0 THEN "ok" ELSE "nonzero",
                                \* what the probe of line 80 had to find
                                !.wingetGit = IF ~hasWinget \/ wingetExit # 0 THEN "none"
                                              ELSE IF which("git", onPath, w.H) THEN "found"
                                              ELSE "missing"]
             h2 == [h1 EXCEPT !.gitDl = dl,
                              !.gitInst = IF ~d.ret THEN "none"
                                          ELSE IF instExit = 0 THEN "ok" ELSE "nonzero",
                              !.fault = @ \/ (~d.ret /\ d.exists)]
         IN  IF p1.ret
             THEN /\ Leave("git", "node",
                           header \o p1.logs \o
                           <<L("Git is already installed or was installed previously.")>>,
                           NoExc, hist)
                  /\ UNCHANGED <<fs, dirHas>>
             ELSE IF ~manual
             THEN /\ Leave("git", "node",
                           header \o p1.logs \o w.logs \o
                           (IF w.winget_available THEN <<>> ELSE p3.logs),
                           NoExc, h1)
                  /\ dirHas' = w.H
                  /\ UNCHANGED fs
             ELSE /\ Leave("git", "node",
                           header \o p1.logs \o w.logs \o p3.logs \o
                           <<L("Attempting manual Git installation...")>> \o m.logs,
                           m.exc, h2)
                  /\ dirHas' = m.H
                  /\ fs' = [fs EXCEPT !.gitInstaller = d.exists]
    /\ UNCHANGED <<success, cwd, original_cwd, onPath, svars>>

\* --------------------------------------------- InstallerWorker.run, 107-134
\* `landed`: the MSI put node and npm at the conventional location; an MSI
\* that exits 0 may also have installed to a directory the user's machine
\* policy chose, which no search path of this process will list.
run_node ==
    /\ scheduled
    /\ pc = "node"
    /\ \E msiExit \in ExitCodes, verExit \in ExitCodes,
          dl \in DownloadOutcomes, rmOk \in BOOLEAN, landed \in BOOLEAN :
         LET header == <<L("--- Checking/Installing Node.js ---")>>
             pn == is_tool_installed("node", "--version", verExit, onPath, dirHas)
             pm == is_tool_installed("npm", "--version", verExit, onPath, dirHas)
             \* `not A or not B`: npm is probed only when node was found
             probes == IF pn.ret THEN pn.logs \o pm.logs ELSE pn.logs
             d  == download_file("node-installer", dl, fs.nodeInstaller, rmOk)
             r  == run_command("msiexec.exe /i", {"log_func", "command", "shell"}, msiExit)
             h  == [hist EXCEPT !.nodeDl = dl,
                                !.msi = IF ~d.ret THEN "none"
                                        ELSE IF msiExit # 0 THEN "nonzero"
                                        ELSE IF landed THEN "ok" ELSE "elsewhere",
                                !.fault = @ \/ (~d.ret /\ d.exists)]
         IN  IF pn.ret /\ pm.ret
             THEN /\ Leave("node", "path",
                           header \o probes \o <<L("Node.js and npm seem to be installed.")>>,
                           NoExc, hist)
                  /\ UNCHANGED <<fs, dirHas>>
             ELSE /\ fs' = [fs EXCEPT !.nodeInstaller = d.exists]
                  /\ IF ~d.ret
                     THEN /\ Leave("node", "path",
                                   header \o probes \o
                                   <<L("Node.js or npm not found. Attempting installation...")>> \o
                                   d.logs \o
                                   <<L("ERROR: Failed to download Node.js installer. Cannot proceed.")>>,
                                   Exc("RuntimeError", "Node.js download failed."), h)
                          /\ UNCHANGED dirHas
                     ELSE /\ Leave("node", "path",
                                   header \o probes \o
                                   <<L("Node.js or npm not found. Attempting installation...")>> \o
                                   d.logs \o <<L("Running Node.js MSI installer")>> \o r.logs \o
                                   (IF r.exc = NoExc
                                    THEN <<L("Node.js installation command finished.")>>
                                    ELSE <<>>),
                                   r.exc, h)
                          /\ dirHas' = IF r.exc = NoExc /\ landed
                                       THEN Install(dirHas, NodeDir, {"node", "npm"})
                                       ELSE dirHas
    /\ UNCHANGED <<success, cwd, original_cwd, onPath, svars>>

\* --------------------------------------------- InstallerWorker.run, 136-152
\* update_process_path is imported from utils (installer.py 23) and called at
\* 146, but utils.py does not define it; its effect is taken from the design
\* text: the conventional install locations are appended to the process's
\* search path.
update_process_path(P, paths) == P \cup paths

\* A step that refreshes the path only when this run installed the runtime
\* (node_installed left False on the branch of 132-134).
run_update_path_gated ==
    /\ scheduled
    /\ pc = "path"
    /\ \E verExit \in ExitCodes :
         LET P1 == IF hist.msi = "none" THEN onPath
                   ELSE update_process_path(onPath, {NodeDir, GitDir})
         IN  /\ onPath' = P1
             /\ Leave("path", "cleanup",
                      <<L("Attempting to update process PATH for Node/Git..."),
                        L("Re-checking tools after potential PATH update...")>> \o
                      is_tool_installed("node", "--version", verExit, P1, dirHas).logs \o
                      is_tool_installed("npm", "--version", verExit, P1, dirHas).logs \o
                      is_tool_installed("git", "--version", verExit, P1, dirHas).logs,
                      NoExc, hist)
    /\ UNCHANGED <<success, cwd, original_cwd, fs, dirHas, svars>>

run_update_path ==
    /\ scheduled
    /\ pc = "path"
    /\ \E verExit \in ExitCodes :
         LET P1 == update_process_path(onPath, {NodeDir, GitDir})
         IN  /\ onPath' = P1
             /\ Leave("path", "cleanup",
                      <<L("Attempting to update process PATH for Node/Git..."),
                        L("Re-checking tools after potential PATH update...")>> \o
                      is_tool_installed("node", "--version", verExit, P1, dirHas).logs \o
                      is_tool_installed("npm", "--version", verExit, P1, dirHas).logs \o
                      is_tool_installed("git", "--version", verExit, P1, dirHas).logs,
                      NoExc, hist)
    /\ UNCHANGED <<success, cwd, original_cwd, fs, dirHas, svars>>

\* --------------------------------------------- InstallerWorker.run, 155-175
\* os.path.isdir / os.path.exists on the project folder (168, 184, 210);
\* isdir_blind is a check that looks at the wrong path and never finds it.
isdir_blind(folder) == FALSE
isdir(folder) == folder # "absent"

run_cleanup ==
    /\ scheduled
    /\ pc = "cleanup"
    /\ \E rmZipOk \in BOOLEAN, rmtreeOk \in BOOLEAN :
         LET zipLogs == IF ~fs.zip THEN <<>>
                        ELSE <<L("Removing existing file")>> \o
                             (IF rmZipOk THEN <<>>
                              ELSE <<L("WARNING: Could not remove existing zip file")>>)
             dirLogs == IF ~isdir(fs.folder) THEN <<>>
                        ELSE <<L("Removing existing directory")>> \o
                             (IF rmtreeOk THEN <<L("Removed directory successfully.")>>
                              ELSE <<L("WARNING: Could not remove existing directory")>>)
             removed == isdir(fs.folder) /\ rmtreeOk
         IN  /\ fs' = [fs EXCEPT !.zip = @ /\ ~rmZipOk,
                                 !.folder = IF removed THEN "absent" ELSE @,
                                 !.keysExample = @ /\ ~removed,
                                 !.keys = @ /\ ~removed,
                                 !.keysDoc = IF removed THEN "none" ELSE @]
             /\ Leave("cleanup", "archive",
                      <<L("--- Downloading and Extracting Mindcraft Project ---")>> \o
                      zipLogs \o dirLogs,
                      NoExc,
                      [hist EXCEPT !.fault = @ \/ (fs.zip /\ ~rmZipOk)
                                               \/ (isdir(fs.folder) /\ ~rmtreeOk)])
    /\ UNCHANGED <<success, cwd, original_cwd, onPath, dirHas, svars>>

\* --------------------------------------------- InstallerWorker.run, 177-205
\* What ZipFile(...).extractall does with the downloaded archive:
\*   "folder"    extracts, and the archive holds mindcraft-main
\*   "noFolder"  extracts, but the archive holds no mindcraft-main
\*   "badZip"    zipfile.BadZipFile on opening
\*   "error"     extractall raises part-way
ExtractOutcomes == {"folder", "noFolder", "badZip", "error"}

\* The try/except of 179-194: the folder state afterwards, the exception that
\* leaves the block and the lines logged.  `before` is the folder state when
\* extraction starts.
extract_archive(o, before) ==
    LET after == IF o = "folder" THEN "extracted"
                 ELSE IF o = "error" /\ before = "absent" THEN "partial"
                 ELSE before
    IN  IF o = "badZip"
        THEN [folder |-> after, exc |-> Exc("BadZipFile", ""),
              logs |-> <<L("Extracting"),
                         L("ERROR: Downloaded file is not a valid zip file.")>>]
        ELSE IF o = "error"
        THEN [folder |-> after, exc |-> Exc("OSError", "extractall"),
              logs |-> <<L("Extracting"), L("ERROR: Failed to extract zip file"),
                         L("traceback")>>]
        ELSE IF ~isdir(after)
        THEN [folder |-> after,
              exc |-> Exc("RuntimeError", "expected folder not found"),
              logs |-> <<L("Extracting"), L("Extraction complete."),
                         L("ERROR: Failed to extract zip file"), L("traceback")>>]
        ELSE [folder |-> after, exc |-> NoExc,
              logs |-> <<L("Extracting"), L("Extraction complete."),
                         L("Verified extracted folder")>>]

\* A cleanup that sits at the end of the try block instead of in a finally:
\* it is skipped when the extraction raised.
remove_archive_on_success(x, exists, rmZipOk) ==
    IF ~exists \/ x.exc # NoExc THEN [zip |-> exists, logs |-> <<>>]
    ELSE [zip |-> ~rmZipOk,
          logs |-> <<L("Removing downloaded zip file")>> \o
                   (IF rmZipOk THEN <<>> ELSE <<L("WARNING: Could not remove zip file")>>)]

\* The finally of 195-202, entered however the try block ended (x): if the
\* archive is there its removal is attempted, and a failure is a warning.
remove_archive(x, exists, rmZipOk) ==
    IF ~exists THEN [zip |-> FALSE, logs |-> <<>>]
    ELSE [zip |-> ~rmZipOk,
          logs |-> <<L("Removing downloaded zip file")>> \o
                   (IF rmZipOk THEN <<>> ELSE <<L("WARNING: Could not remove zip file")>>)]

run_archive ==
    /\ scheduled
    /\ pc = "archive"
    /\ \E dl \in DownloadOutcomes, rmOk \in BOOLEAN, o \in ExtractOutcomes,
          hasExample \in BOOLEAN, rmZipOk \in BOOLEAN :
         LET d == download_file("project-zip", dl, fs.zip, rmOk)
             x == extract_archive(o, fs.folder)
             c == remove_archive(x, d.exists, rmZipOk)
         IN  IF ~d.ret
             THEN /\ fs' = [fs EXCEPT !.zip = d.exists]
                  /\ Leave("archive", "npm",
                           d.logs \o
                           <<L("ERROR: Failed to download project zip file. Cannot proceed.")>>,
                           Exc("RuntimeError", "Project download failed."),
                           [hist EXCEPT !.zipDl = dl,
                                        !.fault = @ \/ d.exists])
             ELSE /\ fs' = [fs EXCEPT !.zip = c.zip,
                                      !.folder = x.folder,
                                      !.keysExample = IF o = "folder" THEN hasExample ELSE @]
                  \* the finally of 195-202 runs after the handlers' lines
                  /\ Leave("archive", "npm",
                           d.logs \o x.logs \o c.logs,
                           x.exc,
                           [hist EXCEPT !.zipDl = dl, !.extract = o,
                                        !.fault = @ \/ ~rmZipOk
                                                    \/ o \in {"badZip", "error"}])
    /\ UNCHANGED <<success, cwd, original_cwd, onPath, dirHas, svars>>

\* --------------------------------------------- InstallerWorker.run, 208-232
run_npm ==
    /\ scheduled
    /\ pc = "npm"
    /\ \E lines \in ChildOutputs, exit \in ExitCodes,
          fault \in {"none"} \cup StreamFaults, alive \in BOOLEAN, termOk \in BOOLEAN :
         LET header == <<L("--- Running npm install ---")>>
             p == is_tool_installed("npm", "None", 0, onPath, dirHas)
             s == IF fault = "none"
                  THEN stream_command("npm install", lines, exit)
                  ELSE stream_command_failed("npm install", fault, lines, alive, termOk)
         IN  IF ~isdir(fs.folder)
             THEN Leave("npm", "rename",
                        header \o <<L("ERROR: Project directory not found. Cannot run 'npm install'.")>>,
                        Exc("RuntimeError", "Project directory missing."), hist)
             ELSE IF ~p.ret
             THEN Leave("npm", "rename",
                        header \o p.logs \o
                        <<L("ERROR: npm command not found. Cannot run 'npm install'.")>>,
                        Exc("RuntimeError", "npm not found, cannot run install."), hist)
             ELSE Leave("npm", "rename",
                        header \o p.logs \o <<L("Running 'npm install'")>> \o s.logs \o
                        (IF s.ret
                         THEN <<L("'npm install' stream completed successfully.")>>
                         ELSE <<L("ERROR: 'npm install' failed. Check logs above.")>>),
                        IF s.ret THEN NoExc ELSE Exc("RuntimeError", "'npm install' failed."),
                        [hist EXCEPT !.npm = IF fault # "none" THEN fault
                                             ELSE IF exit = 0 THEN "ok" ELSE "nonzero",
                                     !.lines = IF fault \in {"notFound", "launchError"}
                                               THEN <<>> ELSE lines,
                                     !.fault = @ \/ fault # "none"])
    /\ UNCHANGED <<success, cwd, original_cwd, fs, onPath, dirHas, svars>>

\* --------------------------------------------- InstallerWorker.run, 235-255
\* A step that copies the template and leaves it in place.
materialize_keys_copying(f, renameOk) ==
    IF f.keysExample /\ ~f.keys /\ renameOk
    THEN [f EXCEPT !.keys = TRUE, !.keysDoc = "template"]
    ELSE f

\* 240-248: the files after the step.  os.rename moves the template, with
\* its content, to keys.json; it is attempted only when the template exists
\* and keys.json does not, and an OSError from it leaves both as they were.
materialize_keys(f, renameOk) ==
    IF f.keysExample /\ ~f.keys /\ renameOk
    THEN [f EXCEPT !.keysExample = FALSE, !.keys = TRUE, !.keysDoc = "template"]
    ELSE f

run_rename ==
    /\ scheduled
    /\ pc = "rename"
    /\ \E renameOk \in BOOLEAN :
         LET header == <<L("--- Renaming keys.example.json ---")>>
             doRename == fs.keysExample /\ ~fs.keys
         IN  /\ fs' = materialize_keys(fs, renameOk)
             /\ Leave("rename", "config",
                      header \o
                      (IF fs.keysExample
                       THEN IF fs.keys
                            THEN <<L("keys.json already exists. Skipping rename.")>>
                            ELSE <<L("Renaming keys.example.json to keys.json")>> \o
                                 (IF renameOk THEN <<L("Rename successful.")>>
                                  ELSE <<L("ERROR: Failed to rename key file"),
                                         L("WARNING: Could not rename key file.")>>)
                       ELSE <<L("Warning: keys.example.json not found. Cannot rename.")>> \o
                            (IF fs.keys THEN <<L("keys.json already exists.")>> ELSE <<>>)),
                      NoExc,
                      [hist EXCEPT !.fault = @ \/ (doRename /\ ~renameOk),
                                   !.rename = IF ~doRename THEN "skipped"
                                              ELSE IF renameOk THEN "renamed"
                                              ELSE "failed",
                                   !.keysBefore = <<fs.keysExample, fs.keys, fs.keysDoc>>])
    /\ UNCHANGED <<success, cwd, original_cwd, onPath, dirHas, svars>>

\* --------------------------------------------- InstallerWorker.run, 258-266
\*   "ok"         open(..., "w") and the write both succeed
\*   "failOpen"   open raises: the file is left as it was
\*   "failWrite"  open has created/truncated the file, then the write (or the
\*                flush on leaving the with block) raises
ConfigOutcomes == {"ok", "failOpen", "failWrite"}

write_config(o, before) ==
    IF o = "ok" THEN File(config_document)
    ELSE IF o = "failWrite" THEN File({})
    ELSE before

run_config ==
    /\ scheduled
    /\ pc = "config"
    /\ \E o \in ConfigOutcomes :
         /\ fs' = [fs EXCEPT !.config = write_config(o, @)]
         /\ success' = (o = "ok")
         /\ Leave("config", "finally",
                  <<L("--- Adding config.json to store launcher options ---")>> \o
                  (IF o = "ok"
                   THEN <<L("--- Installation process completed successfully! ---")>>
                   ELSE <<>>),
                  IF o = "ok" THEN NoExc ELSE Exc("OSError", o),
                  [hist EXCEPT !.config = o, !.fault = @ \/ (o # "ok")])
    /\ UNCHANGED <<cwd, original_cwd, onPath, dirHas, svars>>

\* --------------------------------------------- InstallerWorker.run, 268-275
\* An outer handler that logs the exception without its traceback.
fatal_lines_brief(e) ==
    <<L("--- FATAL ERROR DURING INSTALLATION ---"),
      LA("Error Type", e.type), LA("Error Message", e.msg),
      L("Installation failed. Please check the logs.")>>

fatal_lines(e) ==
    <<L("--- FATAL ERROR DURING INSTALLATION ---"),
      LA("Error Type", e.type), LA("Error Message", e.msg),
      L("Detailed traceback:"), L("traceback"),
      L("Installation failed. Please check the logs.")>>

run_except ==
    /\ scheduled
    /\ pc = "except"
    /\ emitted' = emitted \o LogEvs(fatal_lines(exc))
    /\ success' = FALSE
    /\ pc' = "finally"
    /\ UNCHANGED <<cwd, original_cwd, fs, onPath, dirHas, exc, hist, svars>>

\* --------------------------------------------- InstallerWorker.run, 277-287
\* 279: the directory is changed back only if it was recorded and differs.
must_return(orig, dir) == orig # "unset" /\ dir # orig

\* A finally block that reports the return without changing directory.
chdir_back_forgotten(orig, dir, chdirOk) == dir

\* 280-284: the working directory after the attempt to return.
chdir_back(orig, dir, chdirOk) ==
    IF must_return(orig, dir) /\ chdirOk THEN orig ELSE dir

\* A finally block that reports the outcome before restoring the directory.
finally_events_early(orig, dir, chdirOk, succ) ==
    <<FinEv(succ)>> \o
    (IF ~must_return(orig, dir) THEN <<>>
     ELSE <<LogEv(L("Returned to original directory"))>>)

\* 279-287: the signals of the finally block, in order.
finally_events(orig, dir, chdirOk, succ) ==
    (IF ~must_return(orig, dir) THEN <<>>
     ELSE IF chdirOk
     THEN <<LogEv(L("Returned to original directory"))>>
     ELSE <<LogEv(L("WARNING: Could not return to original directory"))>>) \o
    <<FinEv(succ)>>

run_finally ==
    /\ scheduled
    /\ pc = "finally"
    /\ \E chdirOk \in BOOLEAN :
         /\ cwd' = chdir_back(original_cwd, cwd, chdirOk)
         /\ emitted' = emitted \o finally_events(original_cwd, cwd, chdirOk, success)
         /\ hist' = [hist EXCEPT !.fault = @ \/ (must_return(original_cwd, cwd) /\ ~chdirOk)]
    /\ pc' = "done"
    /\ UNCHANGED <<success, original_cwd, fs, onPath, dirHas, exc, svars>>

\* ------------------------------------------------- Installer (supervisor)
\* Installer.__init__ (installer.py 291-384)
SupervisorInit ==
    /\ ui = [installEnabled |-> TRUE, cancelEnabled |-> TRUE,
             installText |-> "Install", installSlot |-> "begin_installation",
             thread_ |-> FALSE, worker |-> FALSE, outcome |-> "none",
             visible |-> TRUE, started |-> 0, finishConfirm |-> FALSE]
    /\ logText = <<>>
    /\ logFile = <<>>
    /\ delivered = 0
    /\ logFileOk \in BOOLEAN
    /\ app = "running"

\* f"[{timestamp}] {message}" (installer.py 394-396)
stamped(line) == <<"[HH:MM:SS]">> \o line

\* logMessage (installer.py 386-404): the widget afterwards and whether the
\* call raises.  With the log file unwritable the handler appends the error
\* line and then calls verticalScrollbar(), a name QTextEdit does not have.
logMessage(text, line, fileOk) ==
    IF fileOk
    THEN [logText |-> Append(text, stamped(line)), raises |-> FALSE]
    ELSE [logText |-> text \o <<stamped(line),
                                stamped(L("Error writing to installation log file"))>>,
          raises |-> TRUE]

\* installation.log after logMessage appended a line to it (400-401); the
\* file is opened and written by whoever calls logMessage.
appended(file, line, fileOk) ==
    IF fileOk THEN Append(file, stamped(line)) ELSE file

\* begin_installation (installer.py 407-431), the install button's first slot.
begin_installation ==
    /\ app = "running" /\ ui.visible
    /\ ui.installEnabled /\ ui.installSlot = "begin_installation"
    /\ LET m == logMessage(logText, L("Worker thread started."), logFileOk)
       IN  /\ logText' = m.logText
           /\ logFile' = appended(logFile, L("Worker thread started."), logFileOk)
           /\ app' = IF m.raises THEN "aborted" ELSE app
    /\ ui' = [ui EXCEPT !.installEnabled = FALSE, !.cancelEnabled = FALSE,
                        !.installText = "Installing...",
                        !.thread_ = TRUE, !.worker = TRUE,
                        !.started = @ + 1]
    /\ pc' = "prepare"
    /\ UNCHANGED <<success, cwd, original_cwd, fs, onPath, dirHas, emitted, exc,
                   hist, delivered, logFileOk>>

\* The worker lives in thread_ (420) and the window in the main thread, so
\* the connections of 423-424 are queued: each signal is posted to the main
\* thread's event queue and the slots run in posting order.  The signal the
\* main thread handles next, n of them handled so far (next_signal_newest is
\* a queue that hands out the newest signal instead):
next_signal_newest(signals, n) == signals[Len(signals)]
next_signal(signals, n) == signals[n + 1]

\* The connection worker.log -> logMessage (installer.py 423).
deliver_log ==
    /\ app = "running"
    /\ delivered < Len(emitted)
    /\ next_signal(emitted, delivered).sig = "log"
    /\ LET m == logMessage(logText, next_signal(emitted, delivered).line, logFileOk)
       IN  /\ logText' = m.logText
           /\ logFile' = appended(logFile, next_signal(emitted, delivered).line, logFileOk)
           /\ app' = IF m.raises THEN "aborted" ELSE app
    /\ delivered' = delivered + 1
    /\ UNCHANGED <<wvars, ui, logFileOk>>

\* The slot the install button fires once the outcome is known: the old
\* connection is removed and finish_installation (450-457) or
\* QApplication.quit (475-484) is connected.  slot_kept forgets to.
slot_kept(ok) == "begin_installation"
slot_after(ok) == IF ok THEN "finish_installation" ELSE "quit"

\* finish_installation (installer.py 491-501) as on_installation_finished
\* calls it at 461, that is before thread_ is cleared at 487: the message box
\* is shown, then self.close() runs closeEvent (504-522) with thread_ still
\* set, then the application is told to quit.  `running` is what
\* thread_.isRunning() answers at 506: thread_.quit is connected to finished
\* after this slot (428 after 424) and queued to the main thread, so it is
\* called inside the message box's event loop at the earliest, and the thread
\* leaves its own loop some time after that.  `reply` is the user's answer
\* to the question of 507.
finish_installation(u, text, file, running, reply, fileOk) ==
    LET line == L("WARNING: Installation cancelled by closing the window.")
        m == logMessage(text, line, fileOk)
    IN  IF ~(u.thread_ /\ running)
        THEN [ui |-> [u EXCEPT !.visible = FALSE], logText |-> text, logFile |-> file,
              app |-> "quit"]
        ELSE IF reply = "Yes"
        THEN [ui |-> [u EXCEPT !.finishConfirm = TRUE, !.visible = m.raises],
              logText |-> m.logText, logFile |-> appended(file, line, fileOk),
              app |-> IF m.raises THEN "aborted" ELSE "quit"]
        ELSE [ui |-> [u EXCEPT !.finishConfirm = TRUE], logText |-> text,
              logFile |-> file, app |-> "quit"]

\* on_installation_finished (installer.py 434-488), reached through the queued
\* connection of 424.  On success it calls finish_installation (461), which
\* closes the window and quits the application; the references are cleared
\* last (487-488).
on_installation_finished ==
    /\ app = "running"
    /\ delivered < Len(emitted)
    /\ next_signal(emitted, delivered).sig = "finished"
    /\ \E running \in BOOLEAN, reply \in {"Yes", "No"} :
         LET ok == next_signal(emitted, delivered).ok
             m1 == logMessage(logText, LA("Worker thread finished. Success", ToString(ok)),
                              logFileOk)
             m2 == logMessage(m1.logText, L("Scheduled worker object for deletion."),
                              logFileOk)
             f1 == appended(logFile, LA("Worker thread finished. Success", ToString(ok)),
                            logFileOk)
             f2 == appended(f1, L("Scheduled worker object for deletion."), logFileOk)
         IN  IF m1.raises
             THEN /\ logText' = m1.logText
                  /\ logFile' = f1
                  /\ app' = "aborted"
                  /\ ui' = ui
             ELSE IF ui.worker /\ m2.raises
             THEN /\ logText' = m2.logText
                  /\ logFile' = f2
                  /\ app' = "aborted"
                  /\ ui' = ui
             ELSE LET text == IF ui.worker THEN m2.logText ELSE m1.logText
                      file == IF ui.worker THEN f2 ELSE f1
                      u == [ui EXCEPT !.installEnabled = TRUE,
                                      !.installText = IF ok THEN "Finish" ELSE "Close",
                                      !.installSlot = slot_after(ok),
                                      !.outcome = IF ok THEN "succeeded" ELSE "failed"]
                      f == IF ok
                           THEN finish_installation(u, text, file, running, reply, logFileOk)
                           ELSE [ui |-> u, logText |-> text, logFile |-> file, app |-> app]
                  IN  /\ logText' = f.logText
                      /\ logFile' = f.logFile
                      /\ app' = f.app
                      /\ ui' = IF f.app = "aborted" THEN f.ui
                               ELSE [f.ui EXCEPT !.thread_ = FALSE, !.worker = FALSE]
    /\ delivered' = delivered + 1
    /\ UNCHANGED <<wvars, logFileOk>>

\* The install button after a failed run: QApplication.quit (installer.py 484).
click_close ==
    /\ app = "running" /\ ui.visible
    /\ ui.installEnabled /\ ui.installSlot = "quit"
    /\ app' = "quit"
    /\ UNCHANGED <<wvars, ui, logText, delivered, logFileOk, logFile>>

\* closeEvent (installer.py 504-522): the window's close request, from the
\* title bar at any time or from the Cancel button (368) while it is enabled.
\* During a run the user is asked; "Yes" logs the cancellation and quits.
\* Otherwise the window closes, and the application quits only if the
\* install button already reads Finish or Close.
closeEvent ==
    /\ app = "running" /\ ui.visible
    /\ IF ui.thread_
       THEN \E reply \in {"Yes", "No"} :
              LET line == L("WARNING: Installation cancelled by closing the window.")
                  m == logMessage(logText, line, logFileOk)
              IN  IF reply = "Yes"
                  THEN /\ logText' = m.logText
                       /\ logFile' = appended(logFile, line, logFileOk)
                       /\ app' = IF m.raises THEN "aborted" ELSE "quit"
                       /\ ui' = [ui EXCEPT !.visible = m.raises]
                  ELSE UNCHANGED <<logText, logFile, app, ui>>
       ELSE /\ ui' = [ui EXCEPT !.visible = FALSE]
            /\ app' = IF ui.installText \in {"Finish", "Close"} THEN "quit" ELSE app
            /\ UNCHANGED <<logText, logFile>>
    /\ UNCHANGED <<wvars, delivered, logFileOk>>

\* ------------------------------------------------- MainWindow (the caller)
\* The keys MainWindow.__init__ reads from the loaded config (main.py 49).
main_reads == {"installed_time"}
\* The keys of a JSON document.
Keys(doc) == {kv[1] : kv \in doc}

\* MainWindow.__init__ (main.py 31-57) at the next start of the launcher,
\* once the installer has reported its outcome and the application has quit.
\* Without config.json the installer is shown again (33-40); otherwise the
\* file is parsed (44-45; an empty file is not JSON) and the label of 49 is
\* built from the keys it reads, a missing key being a KeyError.
MainWindow_init ==
    /\ app = "quit" /\ pc = "done" /\ ui.outcome # "none"
    /\ app' = IF ~fs.config.exists THEN "installer"
              ELSE IF fs.config.doc = {} THEN "main_failed"
              ELSE IF main_reads \subseteq Keys(fs.config.doc) THEN "main_shown"
              ELSE "main_failed"
    /\ UNCHANGED <<wvars, ui, logText, delivered, logFileOk, logFile>>

\* ------------------------------------------------------------ specification
Init == WorkerInit /\ SupervisorInit

Next ==
    \/ begin_installation
    \/ run_prepare
    \/ run_git
    \/ run_node
    \/ run_update_path
    \/ run_cleanup
    \/ run_archive
    \/ run_npm
    \/ run_rename
    \/ run_config
    \/ run_except
    \/ run_finally
    \/ deliver_log
    \/ on_installation_finished
    \/ click_close
    \/ closeEvent
    \/ MainWindow_init

Spec == Init /\ [][Next]_vars

\* ------------------------------------------------ utils.py, call by call
\* The functions of utils.py taken one call at a time.  The variables keep
\* their meaning where they have one: `emitted` is what the log sink received
\* (log_func is self.log.emit), `exc` the exception the call raised, onPath
\* and dirHas the search path, fs.zip the download's destination; `hist`
\* holds the call: the function, its arguments, what the outside world does
\* to it, and what it returned.
NoCall ==
    [fn |-> "", tool |-> "", flag |-> "", exit |-> 0, kwargs |-> {},
     child |-> Exited(0), lines |-> <<>>, fault |-> "none", alive |-> FALSE,
     termOk |-> FALSE, outcome |-> "ok", rmOk |-> FALSE,
     body |-> NoBody, total_size |-> 0, chunk |-> 0,
     loop |-> [bytes_downloaded |-> 0, last_logged_mb |-> -1, logs |-> <<>>],
     ret |-> "pending", launched |-> FALSE, terminations |-> 0]

Verdict(b) == IF b THEN "True" ELSE "False"

\* The keyword arguments run_command is called with: installer.py 77 and 95,
\* installer.py 125, utils.py 131.
CallSiteKwargs ==
    {{"log_func", "command"}, {"log_func", "command", "shell"},
     {"log_func", "command", "shell", "check", "capture_output"}}

ProbeCalls ==
    {[NoCall EXCEPT !.fn = "is_tool_installed", !.tool = t, !.flag = f, !.exit = x] :
        t \in Tools, f \in {"--version", "None"}, x \in ExitCodes}
StreamCalls ==
    {[NoCall EXCEPT !.fn = "stream_command", !.lines = l, !.exit = x] :
        l \in ChildOutputs, x \in ExitCodes} \cup
    {[NoCall EXCEPT !.fn = "stream_command", !.fault = f] :
        f \in {"notFound", "launchError"}} \cup
    {[NoCall EXCEPT !.fn = "stream_command", !.fault = "readError", !.lines = l,
                    !.alive = a, !.termOk = k] :
        l \in ChildOutputs, a \in BOOLEAN, k \in BOOLEAN}
RunCalls ==
    {[NoCall EXCEPT !.fn = "run_command", !.kwargs = k, !.child = c] :
        k \in CallSiteKwargs, c \in Children}
\* A download that reads a body gets the Content-Length of that body or none.
DownloadCalls ==
    {[NoCall EXCEPT !.fn = "download_file", !.outcome = o, !.rmOk = r] :
        o \in {"failRequest", "failOpen"}, r \in BOOLEAN} \cup
    {[NoCall EXCEPT !.fn = "download_file", !.outcome = o, !.rmOk = r,
                    !.body = b, !.total_size = IF known THEN BodyBytes(b) ELSE 0] :
        o \in {"ok", "failStream"}, r \in BOOLEAN, b \in Bodies, known \in BOOLEAN}

UtilsInit ==
    /\ SupervisorInit /\ logFileOk
    /\ pc = "call" /\ success = FALSE /\ cwd = "root" /\ original_cwd = "unset"
    /\ emitted = <<>> /\ exc = NoExc
    /\ hist \in ProbeCalls \cup StreamCalls \cup RunCalls \cup DownloadCalls
    /\ onPath \in {{"sys"}, Dirs}
    /\ \E pre \in ToolSets, where \in Dirs :
          dirHas = [d \in Dirs |-> IF d = where THEN pre ELSE {}]
    /\ hist.fn # "is_tool_installed" => onPath = {"sys"} /\ dirHas = [d \in Dirs |-> {}]
    /\ \E existed \in BOOLEAN : fs = [FreshRoot EXCEPT !.zip = existed]
    /\ hist.fn # "download_file" => ~fs.zip

call_is_tool_installed ==
    /\ pc = "call" /\ hist.fn = "is_tool_installed"
    /\ LET r == is_tool_installed(hist.tool, hist.flag, hist.exit, onPath, dirHas)
       IN  /\ emitted' = LogEvs(r.logs)
           /\ hist' = [hist EXCEPT !.ret = Verdict(r.ret), !.launched = r.launched]
    /\ pc' = "returned"
    /\ UNCHANGED <<success, cwd, original_cwd, fs, onPath, dirHas, exc, svars>>

call_stream_command ==
    /\ pc = "call" /\ hist.fn = "stream_command"
    /\ LET r == IF hist.fault = "none"
                THEN stream_command("npm install", hist.lines, hist.exit)
                ELSE stream_command_failed("npm install", hist.fault, hist.lines,
                                           hist.alive, hist.termOk)
       IN  /\ emitted' = LogEvs(r.logs)
           /\ exc' = IF hist.fault = "none" THEN NoExc ELSE r.exc
           /\ hist' = [hist EXCEPT
                         !.ret = IF hist.fault # "none" /\ r.exc # NoExc THEN "raised"
                                 ELSE Verdict(r.ret),
                         !.launched = hist.fault \in {"none", "readError"},
                         !.terminations = IF hist.fault = "none" THEN 0
                                          ELSE r.terminations]
    /\ pc' = "returned"
    /\ UNCHANGED <<success, cwd, original_cwd, fs, onPath, dirHas, svars>>

call_run_command ==
    /\ pc = "call" /\ hist.fn = "run_command"
    /\ LET r == run_command_on("msiexec.exe /i", hist.kwargs, hist.child)
       IN  /\ emitted' = LogEvs(r.logs)
           /\ exc' = r.exc
           /\ hist' = [hist EXCEPT !.ret = IF r.exc = NoExc THEN "result" ELSE "raised",
                                   !.launched = r.launched]
    /\ pc' = "returned"
    /\ UNCHANGED <<success, cwd, original_cwd, fs, onPath, dirHas, svars>>

\* download_file up to the loop (utils.py 145-153): a request or an open that
\* fails ends the call at once; otherwise the destination is open for writing
\* and the loop's variables are set (150-151, the values NoCall gives them).
call_download_file ==
    /\ pc = "call" /\ hist.fn = "download_file"
    /\ LET r == download_file("project-zip", hist.outcome, fs.zip, hist.rmOk)
       IN  IF hist.outcome \in {"failRequest", "failOpen"}
           THEN /\ emitted' = LogEvs(r.logs)
                /\ fs' = [fs EXCEPT !.zip = r.exists]
                /\ hist' = [hist EXCEPT !.ret = Verdict(r.ret)]
                /\ pc' = "returned"
           ELSE /\ emitted' = LogEvs(<<Head(r.logs)>>)
                /\ fs' = [fs EXCEPT !.zip = TRUE]
                /\ hist' = hist
                /\ pc' = "streaming"
    /\ UNCHANGED <<success, cwd, original_cwd, onPath, dirHas, exc, svars>>

\* One pass of the loop (154-166): the next chunk of the body is written and
\* the progress line, if one is due, is logged.
download_chunk ==
    /\ pc = "streaming" /\ hist.chunk < Chunks(hist.body)
    /\ LET st == write_chunk([hist.loop EXCEPT !.logs = <<>>],
                             ChunkLen(hist.body, hist.chunk + 1), hist.total_size)
       IN  /\ emitted' = emitted \o LogEvs(st.logs)
           /\ hist' = [hist EXCEPT !.chunk = @ + 1, !.loop = [st EXCEPT !.logs = <<>>]]
    /\ UNCHANGED <<pc, success, cwd, original_cwd, fs, onPath, dirHas, exc, svars>>

\* The body has been read as far as it came (168-187): the call reports the
\* complete download, or the stream's failure, and cleans up.
download_end ==
    /\ pc = "streaming" /\ hist.chunk = Chunks(hist.body)
    /\ LET r == download_file("project-zip", hist.outcome, fs.zip, hist.rmOk)
       IN  /\ emitted' = emitted \o LogEvs(Tail(r.logs))
           /\ fs' = [fs EXCEPT !.zip = r.exists]
           /\ hist' = [hist EXCEPT !.ret = Verdict(r.ret)]
    /\ pc' = "returned"
    /\ UNCHANGED <<success, cwd, original_cwd, onPath, dirHas, exc, svars>>

UtilsNext ==
    \/ call_is_tool_installed
    \/ call_stream_command
    \/ call_run_command
    \/ call_download_file
    \/ download_chunk
    \/ download_end

UtilsSpec == UtilsInit /\ [][UtilsNext]_vars

\* ------------------------------------------------------------------ claims
IsLog(e) == e.sig = "log"
IsFinished(e) == e.sig = "finished"
Logs(signals) == SelectSeq(signals, IsLog)
Finishes(signals) == SelectSeq(signals, IsFinished)
Last(q) == q[Len(q)]
\* Positions of a line in the worker's log.
At(line) ==
    {i \in 1..Len(emitted) : emitted[i].line = line /\ emitted[i].sig = "log"}
Logged(line) == At(line) # {}
FailedDownloads == DownloadOutcomes \ {"ok"}
ConfigAtEntry == IF hist.hadConfig THEN File(EarlierConfig) ELSE NoFile

\* C1: finished(True) is emitted only by a run in which every section
\* completed and none raised: the directories were prepared, Git and the
\* runtime were provisioned, the archive was downloaded and its folder
\* verified, 'npm install' returned true and config.json was written.
C1_SuccessOnlyAfterEveryStep ==
    (\E i \in 1..Len(emitted) : emitted[i] = FinEv(TRUE)) =>
        /\ hist.raisedAt = ""
        /\ Sections \subseteq hist.done
        /\ hist.zipDl = "ok" /\ hist.extract \in {"folder", "noFolder"}
        /\ isdir(fs.folder)
        /\ hist.npm = "ok"
        /\ hist.config = "ok" /\ fs.config = File(config_document)

C1_Witness ==
    /\ pc = "done" /\ Last(emitted) = FinEv(TRUE)
    /\ hist.gitInst = "ok" /\ hist.msi = "ok"

\* C2: a run emits finished exactly once, as the last signal of the worker:
\* never before run has reached its end, exactly once when it has, nothing
\* after it; and no section of a scheduled run is without a next step.
C2_FinishedOnceAndLast ==
    /\ Len(Finishes(emitted)) = IF pc = "done" THEN 1 ELSE 0
    /\ pc = "done" => Last(emitted) = FinEv(success)
    /\ (scheduled /\ pc \notin {"idle", "done"}) =>
          ENABLED (run_prepare \/ run_git \/ run_node \/ run_update_path
                   \/ run_cleanup \/ run_archive \/ run_npm \/ run_rename
                   \/ run_config \/ run_except \/ run_finally)

C2_Witness ==
    /\ pc = "done" /\ hist.raisedAt = "archive"
    /\ Len(Finishes(emitted)) = 1 /\ Last(emitted) = FinEv(FALSE)

\* The lines of the widget that came from the worker: every line the window
\* writes itself has one of these texts.
OwnTexts == {"Worker thread started.", "Worker thread finished. Success",
             "Scheduled worker object for deletion.",
             "Error writing to installation log file",
             "WARNING: Installation cancelled by closing the window."}
FromWorker(entry) == entry[2] \notin OwnTexts
WorkerLinesShown == SelectSeq(logText, FromWorker)

\* C3: the window appends the worker's log lines in the order they were
\* emitted, none dropped and none twice, and handles finished only after
\* every log line of the run has been appended.
C3_LogOrderPreserved ==
    LET sent == Logs(emitted)
        shown == WorkerLinesShown
    IN  /\ Len(shown) <= Len(sent)
        /\ \A i \in 1..Len(shown) : shown[i] = stamped(sent[i].line)
        /\ ui.outcome # "none" => Len(shown) = Len(sent)

C3_Witness ==
    /\ ui.outcome = "failed" /\ hist.npm = "nonzero" /\ Len(hist.lines) = MaxLines
    /\ Len(WorkerLinesShown) = Len(Logs(emitted))

\* C4 as claimed: when finished is emitted the working directory is the one
\* the process had when run was entered, on every path.
C4_CwdAlwaysRestored ==
    pc = "done" => cwd = hist.entryCwd

\* C4 as amended: when finished is emitted the working directory is the one
\* at entry, unless the chdir back raised, and then the line before finished
\* is the warning that the directory could not be restored.
C4_CwdRestoredOrWarned ==
    pc = "done" =>
        \/ cwd = hist.entryCwd
        \/ /\ Len(emitted) >= 2
           /\ emitted[Len(emitted) - 1] =
                 LogEv(L("WARNING: Could not return to original directory"))

C4_Witness ==
    /\ pc = "done" /\ hist.raisedAt = "node"
    /\ hist.entryCwd # "root" /\ cwd = hist.entryCwd
    /\ Logged(L("Changed working directory"))
    /\ Logged(L("Returned to original directory"))

\* C5: an exception that escapes a section is caught once by the outer
\* handler: the fatal header, the exception's type, its message and the
\* traceback are logged, in that order, exactly once, success is false and
\* the run goes on to deliver finished(False); a run in which nothing
\* escaped logs no fatal header.
C5_CaughtOnceByOuterHandler ==
    LET header == At(L("--- FATAL ERROR DURING INSTALLATION ---"))
    IN  /\ hist.raisedAt = "" => header = {} /\ pc # "except"
        /\ (hist.raisedAt # "" /\ pc = "except") => header = {} /\ exc # NoExc
        /\ (hist.raisedAt # "" /\ pc # "except") =>
              /\ pc \in {"finally", "done"}
              /\ ~success
              /\ Cardinality(header) = 1
              /\ \A i \in header :
                    /\ i + 5 <= Len(emitted)
                    /\ emitted[i + 1] = LogEv(LA("Error Type", exc.type))
                    /\ emitted[i + 2] = LogEv(LA("Error Message", exc.msg))
                    /\ emitted[i + 4] = LogEv(L("traceback"))
              /\ pc = "done" => Last(emitted) = FinEv(FALSE)

C5_Witness ==
    /\ pc = "done" /\ hist.raisedAt = "npm" /\ exc.type = "RuntimeError"
    /\ Logged(LA("Error Message", "'npm install' failed."))
    /\ Last(emitted) = FinEv(FALSE)

\* C6 as claimed: for a run started without config.json, when finished is
\* emitted config.json exists exactly if the outcome is True.
C6_ConfigExistsIffSuccess ==
    (pc = "done" /\ ~hist.hadConfig) => (fs.config.exists <=> success)

\* Scenario A: git, node, npm and winget are not on the search path, every
\* download made succeeds, both installers exit 0, the archive is the
\* project's, 'npm install' does not exit nonzero and no filesystem operation
\* of the run fails.
ScenarioA ==
    /\ hist.pre = {}
    /\ hist.gitDl = "ok" /\ hist.gitInst = "ok"
    /\ hist.nodeDl = "ok" /\ hist.msi = "ok"
    /\ hist.zipDl = "ok" /\ hist.extract = "folder"
    /\ hist.npm # "nonzero"
    /\ ~hist.fault

\* C7: a run of scenario A ends with finished(True) and a config.json whose
\* settings object is empty.
C7_ScenarioASucceeds ==
    (pc = "done" /\ ScenarioA) =>
        /\ Last(emitted) = FinEv(TRUE)
        /\ hist.npm = "ok"
        /\ fs.config.exists
        /\ <<"settings", "{}">> \in fs.config.doc
        /\ \A kv \in fs.config.doc : kv[1] = "settings" => kv[2] = "{}"

C7_Witness ==
    /\ pc = "done" /\ ScenarioA /\ hist.winget = "none"
    /\ Logged(L("Running Git installer")) /\ Logged(L("Running Node.js MSI installer"))
    /\ Last(emitted) = FinEv(TRUE)

\* What a failed fatal download means for the rest of the run: the run is in
\* or past the outer handler, the exception escaped the section of the
\* download, no later section ran, success is false and config.json is as it
\* was at entry.
AbortedAt(section, later) ==
    /\ pc \in {"except", "finally", "done"}
    /\ hist.raisedAt = section
    /\ hist.done \cap later = {}
    /\ hist.extract = "none" /\ hist.npm = "none" /\ hist.config = "none"
    /\ ~Logged(L("Renaming keys.example.json to keys.json"))
    /\ ~success
    /\ fs.config = ConfigAtEntry
    /\ pc = "done" => Last(emitted) = FinEv(FALSE)

\* C8 as claimed: when the runtime installer download or the project archive
\* download fails, the run aborts at that step, no later step runs, the
\* outcome is False, config.json is not written and no file remains at the
\* download destination.
C8_FatalDownloadLeavesNoFile ==
    /\ hist.nodeDl \in FailedDownloads =>
          /\ AbortedAt("node", {"path", "cleanup", "archive", "npm", "rename", "config"})
          /\ ~fs.nodeInstaller
    /\ hist.zipDl \in FailedDownloads =>
          /\ AbortedAt("archive", {"npm", "rename", "config"})
          /\ ~fs.zip

\* C8 as amended: ... and no file remains at the download destination unless
\* removing the partial file failed, which is logged as a warning.
C8_FatalDownloadAborts ==
    /\ hist.nodeDl \in FailedDownloads =>
          /\ AbortedAt("node", {"path", "cleanup", "archive", "npm", "rename", "config"})
          /\ \/ ~fs.nodeInstaller
             \/ Logged(LA("WARNING: Could not remove partial download", "node-installer"))
    /\ hist.zipDl \in FailedDownloads =>
          /\ AbortedAt("archive", {"npm", "rename", "config"})
          /\ \/ ~fs.zip
             \/ Logged(LA("WARNING: Could not remove partial download", "project-zip"))

C8_Witness ==
    /\ pc = "done" /\ hist.zipDl = "failStream" /\ ~fs.zip
    /\ Logged(LA("Cleaned up partial download", "project-zip"))
    /\ Last(emitted) = FinEv(FALSE)

\* Where the streamed lines stand in the widget: right after the line that
\* announces the command, in the child's order, followed by the line that
\* reports the failed command and, later, by the fatal header.
StreamedLinesShown(shown) ==
    \E i \in 1..Len(shown) :
        /\ shown[i] = stamped(LA("Streaming command", "npm install"))
        /\ i + Len(hist.lines) + 1 <= Len(shown)
        /\ \A j \in 1..Len(hist.lines) :
              shown[i + j] = stamped(LA("child output", rstrip(hist.lines[j])))
        /\ shown[i + Len(hist.lines) + 1] =
              stamped(LA("ERROR: Command failed", "npm install"))
        /\ \E k \in (i + Len(hist.lines) + 2)..Len(shown) :
              shown[k] = stamped(L("--- FATAL ERROR DURING INSTALLATION ---"))

\* C9: when 'npm install' exits nonzero, or npm does not resolve at that
\* step, the outcome is False, config.json is not written and the template is
\* not renamed; and once the window has handled the outcome its log holds
\* every line the command streamed, in order, before the failure lines.
C9_NpmFailureAborts ==
    (hist.raisedAt = "npm") =>
        /\ pc \in {"except", "finally", "done"}
        /\ ~success
        /\ hist.done \cap {"rename", "config"} = {}
        /\ hist.config = "none" /\ fs.config = ConfigAtEntry
        /\ ~Logged(L("Renaming keys.example.json to keys.json"))
        /\ pc = "done" => Last(emitted) = FinEv(FALSE)
        /\ ui.outcome # "none" =>
              /\ ui.outcome = "failed"
              /\ hist.npm = "nonzero" => StreamedLinesShown(WorkerLinesShown)

C9_Witness ==
    /\ ui.outcome = "failed" /\ hist.raisedAt = "npm"
    /\ hist.npm = "nonzero" /\ Len(hist.lines) = MaxLines
    /\ StreamedLinesShown(WorkerLinesShown)

\* C10 as claimed: a failed download of the Git installer is not fatal: no
\* exception escapes the Git section because of it, and the run goes on to
\* the runtime section.
C10_GitDownloadFailureNotFatal ==
    hist.gitDl \in FailedDownloads => hist.raisedAt # "git"

\* C11 as claimed: a nonzero exit of the winget install, of the Git installer
\* or of the msiexec runtime installer does not abort the run: no exception
\* escapes the section that ran the command.
C11_InstallerExitNotFatal ==
    /\ hist.winget = "nonzero" /\ hist.gitDl = "none" => hist.raisedAt # "git"
    /\ hist.gitInst = "nonzero" => hist.raisedAt # "git"
    /\ hist.msi = "nonzero" => hist.raisedAt # "node"

\* The call under test has returned or raised.
Returned(fn) == pc = "returned" /\ hist.fn = fn
\* What the log sink received, as lines.
Sink == [i \in 1..Len(emitted) |-> emitted[i].line]
InSink(line) == \E i \in 1..Len(emitted) : emitted[i].line = line

\* C12: is_tool_installed returns True exactly when the tool resolves on the
\* search path, whatever the version flag and whatever exit code the version
\* query would have, never raises, and launches no child when the tool does
\* not resolve.
C12_ProbeResultIsResolution ==
    Returned("is_tool_installed") =>
        /\ hist.ret = Verdict(\E d \in onPath : hist.tool \in dirHas[d])
        /\ exc = NoExc
        /\ hist.ret = "False" => ~hist.launched

C12_Witness ==
    /\ Returned("is_tool_installed") /\ hist.tool = "node"
    /\ hist.flag = "--version" /\ hist.exit = 1
    /\ onPath = Dirs /\ "node" \in dirHas[NodeDir]
    /\ hist.ret = "True"

\* C13: stream_command forwards the child's lines (trailing whitespace
\* stripped) to the sink in the child's order, all of them before it returns:
\* the sink holds the announcement, then exactly the child's N lines in order,
\* then the result line, and the verdict is True for exit 0 and False for a
\* nonzero exit.
C13_StreamForwardsInOrder ==
    (Returned("stream_command") /\ hist.fault = "none") =>
        /\ Len(emitted) = Len(hist.lines) + 2
        /\ \A i \in 1..Len(hist.lines) :
              Sink[i + 1] = LA("child output", hist.lines[i][1])
        /\ Sink[1] = LA("Streaming command", "npm install")
        /\ hist.ret = Verdict(hist.exit = 0)
        /\ Sink[Len(emitted)] = IF hist.exit = 0
                                THEN LA("Command finished successfully", "npm install")
                                ELSE LA("ERROR: Command failed", "npm install")
        /\ exc = NoExc

C13_Witness ==
    /\ Returned("stream_command") /\ hist.fault = "none"
    /\ Len(hist.lines) = MaxLines /\ hist.exit = 1
    /\ hist.ret = "False" /\ Len(emitted) = MaxLines + 2

\* C14: stream_command reports every failure by returning False and never by
\* raising: a program that cannot be found, an error while launching or
\* reading, and a nonzero exit are logged; a still-running child gets at most
\* one terminate attempt, and only when a child was started.
C14_StreamFailureReturnsFalse ==
    (Returned("stream_command") /\ (hist.fault # "none" \/ hist.exit # 0)) =>
        /\ hist.ret = "False"
        /\ exc = NoExc
        /\ hist.terminations <= 1
        /\ hist.terminations = 1 => hist.fault = "readError" /\ hist.alive
        /\ hist.fault = "readError" /\ hist.alive => hist.terminations = 1
        /\ \/ InSink(LA("ERROR: Command not found", "npm install"))
           \/ InSink(LA("ERROR: An unexpected error occurred while streaming command",
                        "npm install"))
           \/ InSink(LA("ERROR: Command failed", "npm install"))

C14_Witness ==
    /\ Returned("stream_command") /\ hist.fault = "readError"
    /\ hist.alive /\ ~hist.termOk /\ Len(hist.lines) > 0
    /\ hist.ret = "False" /\ hist.terminations = 1
    /\ InSink(L("Error trying to terminate process"))

\* C15: run_command logs 'Running command' first whenever it launches a
\* child, returns normally only for a child that exited 0, raises
\* CalledProcessError after logging the return code and the captured output
\* for a child that exited nonzero, and raises FileNotFoundError after logging
\* when the executable cannot be found; a child that exited nonzero never gets
\* the 'finished successfully' line.
C15_RunCommandRaisesOnFailure ==
    Returned("run_command") =>
        LET c == hist.child
            cmd == "msiexec.exe /i"
        IN  /\ hist.launched => Sink[1] = LA("Running command", cmd)
            /\ hist.ret = "result" =>
                  /\ hist.launched /\ c.launch = "ok" /\ c.exit = 0
                  /\ exc = NoExc
            /\ hist.ret = "raised" <=> exc # NoExc
            /\ (hist.launched /\ c.exit # 0) =>
                  /\ exc.type = "CalledProcessError"
                  /\ InSink(LA("Return code", cmd))
                  /\ c.out => InSink(LA("stdout", cmd))
                  /\ ~InSink(LA("Command finished successfully", cmd))
            /\ (c.launch = "notFound" /\ hist.kwargs \subseteq run_command_params) =>
                  /\ exc.type = "FileNotFoundError"
                  /\ InSink(LA("ERROR: Command not found", cmd))

C15_Witness ==
    /\ Returned("run_command") /\ hist.child = Child("ok", 1, TRUE)
    /\ hist.launched /\ hist.ret = "raised" /\ exc.type = "CalledProcessError"

\* What C16 says apart from the state of the destination: download_file does
\* not raise, returns True only for a body written whole, and logs the cause
\* of a failure.
DownloadReported ==
    /\ exc = NoExc
    /\ hist.ret = Verdict(hist.outcome = "ok")
    /\ hist.ret = "False" =>
          \/ InSink(LA("ERROR: Failed to download", "project-zip"))
          \/ InSink(LA("ERROR: Could not write file", "project-zip"))

\* C16 as claimed: download_file never raises, returns True only after the
\* whole body was written, and on any failure logs the cause and returns False
\* with no file left at the destination.
C16_FailedDownloadLeavesNoFile ==
    Returned("download_file") =>
        /\ DownloadReported
        /\ hist.ret = "False" => ~fs.zip

\* C16 as amended: ... with no file left at the destination unless removing
\* it failed, which is logged as a warning.
C16_FailedDownloadCleansUp ==
    Returned("download_file") =>
        /\ DownloadReported
        /\ hist.ret = "True" => fs.zip
        /\ hist.ret = "False" =>
              \/ ~fs.zip
              \/ InSink(LA("WARNING: Could not remove partial download", "project-zip"))

C16_Witness ==
    /\ Returned("download_file") /\ hist.outcome = "failOpen"
    /\ hist.ret = "False" /\ ~fs.zip
    /\ InSink(LA("ERROR: Could not write file", "project-zip"))

\* The rename step has run: what it found and what it left.
RenameStepRan == "rename" \in hist.done
TemplateOnly == hist.keysBefore[1] /\ ~hist.keysBefore[2]
KeysNow == <<fs.keysExample, fs.keys, fs.keysDoc>>
Renamed == fs.keys /\ fs.keysDoc = "template" /\ ~fs.keysExample

\* C17 as claimed: with the template present and keys.json absent, after the
\* step keys.json holds the template's content and the template is gone; with
\* the template missing or keys.json present neither file changes; and the
\* step never aborts the run.
C17_TemplateAlwaysRenamed ==
    /\ hist.raisedAt # "rename"
    /\ RenameStepRan =>
          /\ TemplateOnly => Renamed
          /\ ~TemplateOnly => KeysNow = hist.keysBefore

\* C17 as amended: ... after the step keys.json holds the template's content
\* and the template is gone, unless the rename itself fails, in which case
\* both files are left as they were and the failure is logged; ...
C17_TemplateRenamedUnlessRenameFails ==
    /\ hist.raisedAt # "rename"
    /\ pc = "rename" => hist.rename = "none"
    /\ RenameStepRan =>
          /\ (TemplateOnly /\ hist.rename = "renamed") => Renamed
          /\ (TemplateOnly /\ hist.rename # "renamed") =>
                /\ hist.rename = "failed"
                /\ KeysNow = hist.keysBefore
                /\ Logged(L("ERROR: Failed to rename key file"))
          /\ ~TemplateOnly => hist.rename = "skipped" /\ KeysNow = hist.keysBefore

C17_Witness ==
    /\ pc = "done" /\ RenameStepRan /\ TemplateOnly /\ hist.rename = "renamed"
    /\ Renamed /\ Logged(L("Rename successful."))

\* Every external operation the run attempted succeeded: downloads,
\* installers, the archive's content, 'npm install' and the filesystem.
ExternalsSucceeded ==
    /\ ~hist.fault
    /\ {hist.gitDl, hist.nodeDl, hist.zipDl} \subseteq {"none", "ok"}
    /\ {hist.winget, hist.gitInst, hist.msi} \subseteq {"none", "ok"}
    /\ hist.extract \in {"none", "folder"}
    /\ hist.npm \in {"none", "ok"}
    /\ hist.config \in {"none", "ok"}

\* C18: a run against a root that holds config.json, mindcraft.zip and the
\* mindcraft-main folder of an earlier successful run removes the stale
\* archive and folder before it downloads, does not fail because they exist,
\* and, every external operation succeeding, ends with finished(True) and a
\* config.json of the schema {downloaded, settings: {}}.
C18_RerunSucceeds ==
    (hist.hadConfig /\ ExternalsSucceeded) =>
        /\ hist.raisedAt = ""
        /\ pc = "archive" => ~fs.zip /\ fs.folder = "absent"
        /\ pc = "done" =>
              /\ Last(emitted) = FinEv(TRUE)
              /\ fs.config.exists
              /\ {kv[1] : kv \in fs.config.doc} = {"downloaded", "settings"}
              /\ <<"settings", "{}">> \in fs.config.doc

C18_Witness ==
    /\ pc = "done" /\ hist.hadConfig /\ ExternalsSucceeded
    /\ Logged(L("Removing existing file")) /\ Logged(L("Removed directory successfully."))
    /\ Last(emitted) = FinEv(TRUE) /\ fs.config = File(config_document)

\* C19: one window starts at most one worker: begin_installation cannot fire
\* once a worker was started, neither while it runs (the button is disabled)
\* nor after the outcome arrived (the button then finishes or closes).
C19_SingleFlight ==
    /\ ui.started <= 1
    /\ ui.started = 1 <=> pc # "idle"
    /\ pc # "idle" => ~ENABLED begin_installation
    /\ (ui.thread_ /\ ui.outcome = "none") => ~ui.installEnabled
    /\ ui.outcome # "none" => ui.installSlot \in {"finish_installation", "quit"}

C19_Witness ==
    /\ ui.outcome = "failed" /\ app = "running" /\ ui.visible
    /\ ui.installEnabled /\ ui.installText = "Close" /\ ui.started = 1

\* C20 as claimed: while a run is in progress the main thread does no
\* filesystem I/O: no line of the worker is written to installation.log by
\* the window before the outcome has arrived.
C20_SupervisorDoesNoFileIO ==
    (ui.thread_ /\ ui.outcome = "none") =>
        \A i \in 1..Len(logFile) : ~FromWorker(logFile[i])

\* The sections that run after the search path was refreshed.
AfterPath == {"cleanup", "archive", "npm", "rename", "config"}
PathRefreshed == {NodeDir, GitDir} \subseteq onPath

\* C21: once runtime provisioning has completed, the process's search path
\* holds the conventional nodejs and Git\cmd directories before the archive
\* and dependency-install sections run; the re-probes of the three tools only
\* log (whatever they find, the section is followed by the archive cleanup and
\* nothing is raised); and no step ever takes a directory off the path.
C21_PathRefreshedAndKept ==
    [][/\ onPath \subseteq onPath'
       /\ pc' \in AfterPath => PathRefreshed'
       /\ (pc = "path" /\ pc' # pc) =>
              /\ pc' = "cleanup" /\ exc' = NoExc
              /\ hist'.raisedAt = ""
              /\ \A t \in {"node", "npm", "git"} :
                    \E i \in (Len(emitted) + 1)..Len(emitted') :
                        emitted'[i] = LogEv(LA("Checking if installed", t))]_vars

C21_Witness ==
    /\ pc = "npm" /\ "path" \in hist.done /\ hist.msi = "elsewhere"
    /\ PathRefreshed /\ "sys" \in onPath
    /\ ~which("npm", onPath, dirHas)
    /\ Logged(LA("not found in PATH", "npm"))

\* The progress lines the sink received.
ProgressAt ==
    {i \in 1..Len(emitted) :
        emitted[i].line[1] \in {"Downloaded MB / total MB (percent)", "Downloaded MB..."}}

\* C22 as claimed: for a body of B bytes download_file logs at most
\* floor(B / 2^20) progress lines, and none before the first whole mebibyte
\* has been written (no line reports 0 MB).
C22_ProgressOncePerMebibyte ==
    Returned("download_file") =>
        /\ Cardinality(ProgressAt) <= BodyBytes(hist.body) \div MiB
        /\ \A i \in ProgressAt : emitted[i].line[2] # "0"

\* C23: once the project archive has been downloaded, the removal of
\* mindcraft.zip is attempted after the extraction attempt, once, however the
\* extraction ended (folder extracted, no folder in the archive, not a zip,
\* extraction raised); from then on, and so when the run returns, no archive
\* is at the installation root unless the removal failed and was logged.
\* The order and the count are stated where the archive section has just
\* ended and again where the last section has (the sink only grows).
C23_ArchiveRemovedAfterExtraction ==
    hist.zipDl = "ok" =>
        /\ hist.extract \in ExtractOutcomes
        /\ \/ ~fs.zip
           \/ \E i \in 1..Len(emitted) :
                 emitted[i].line = L("WARNING: Could not remove zip file")
        /\ pc \in {"npm", "except", "finally"} =>
              LET removals == At(L("Removing downloaded zip file"))
                  extractions == At(L("Extracting"))
              IN  /\ Cardinality(removals) = 1
                  /\ extractions # {}
                  /\ \A i \in extractions, j \in removals : i < j

C23_Witness ==
    /\ pc = "done" /\ hist.zipDl = "ok" /\ hist.extract = "badZip"
    /\ hist.raisedAt = "archive" /\ ~fs.zip
    /\ Logged(L("Removing downloaded zip file"))
    /\ ~Logged(L("WARNING: Could not remove zip file"))

\* C24 as claimed: when the archive extracts without error but holds no
\* mindcraft-main folder, the run fails at the archive section and
\* 'npm install' is never started, whatever the installation root held
\* before, a stale mindcraft-main that could not be removed included.
C24_MissingFolderIsFatal ==
    hist.extract = "noFolder" =>
        /\ hist.raisedAt = "archive"
        /\ ~success
        /\ hist.npm = "none"
        /\ ~Logged(L("Running 'npm install'"))

\* The Git section has run; what its first probe found (the section is the
\* first to probe, so the search path is the one the process started with).
GitSectionRan == "git" \in hist.done \/ hist.raisedAt = "git"
\* ... and has just ended: the run is at the runtime section or, an exception
\* having escaped, at the outer handler.
GitSectionEnded == pc = "node" \/ (pc = "except" /\ hist.raisedAt = "git")
GitAtFirstProbe == "git" \in hist.pre
WingetAvailable == "winget" \in hist.pre
WingetLines == At(L("Winget detected"))
ManualLines == At(L("Attempting manual Git installation..."))
InstallerLines == At(L("Running Git installer"))

\* C25 (stated when the Git section ends and again when the last section
\* has ended, the sink only growing in between): the
\* branches of the Git section.  git found at the first probe: no
\* winget command, no installer download, no installer run.  git absent and
\* winget available: winget is attempted, before anything else.  The vendor
\* installer is fetched exactly when git was absent and winget is unavailable,
\* or its command failed, or git is still absent after it; it is run exactly
\* when that download succeeded; neither happens twice.  When the installer
\* has run and git still does not resolve, the warning is logged and nothing
\* is raised.
C25_GitProvisioningBranches ==
    (GitSectionEnded \/ (GitSectionRan /\ pc = "finally")) =>
        LET winget == WingetLines
            manual == ManualLines
            installer == InstallerLines
            downloads == At(LA("Attempting to download", "git-installer"))
        IN  /\ GitAtFirstProbe =>
                  /\ hist.winget = "none" /\ hist.gitDl = "none" /\ hist.gitInst = "none"
                  /\ winget = {} /\ manual = {} /\ installer = {}
                  /\ downloads = {}
            /\ (~GitAtFirstProbe /\ WingetAvailable) =>
                  /\ hist.winget \in {"ok", "nonzero"}
                  /\ winget # {}
                  /\ \A i \in winget, j \in manual : i < j
            /\ ~WingetAvailable => hist.winget = "none" /\ winget = {}
            /\ hist.gitDl # "none" <=>
                  /\ ~GitAtFirstProbe
                  /\ \/ ~WingetAvailable
                     \/ hist.winget = "nonzero"
                     \/ hist.wingetGit = "missing"
            /\ hist.gitDl # "none" <=> manual # {}
            /\ hist.gitInst # "none" <=> hist.gitDl = "ok"
            /\ hist.gitInst # "none" <=> installer # {}
            /\ Cardinality(winget) <= 1
            /\ Cardinality(manual) <= 1
            /\ Cardinality(installer) <= 1
            /\ Cardinality(downloads) <= 1
            /\ (hist.gitInst = "ok" /\ ~which("git", {"sys"}, dirHas)) =>
                  /\ hist.raisedAt # "git"
                  /\ Logged(L("WARNING: Git installed, but 'git' command might not be in PATH yet."))

C25_Witness ==
    /\ pc = "node" /\ ~GitAtFirstProbe /\ WingetAvailable
    /\ hist.winget = "ok" /\ hist.wingetGit = "missing"
    /\ hist.gitDl = "ok" /\ hist.gitInst = "ok"
    /\ ~which("git", onPath, dirHas)
    /\ Logged(L("WARNING: Git installed, but 'git' command might not be in PATH yet."))

\* The positions of run(), in the order the code lists them.
RunOrder == <<"idle", "prepare", "git", "node", "path", "cleanup", "archive", "npm",
              "rename", "config", "except", "finally", "done">>
Rank(p) == CHOOSE i \in 1..Len(RunOrder) : RunOrder[i] = p
\* The sections before position p.
Before(p) == {q \in Sections : Rank(q) < Rank(p)}
\* The places among the signals of one step where 'npm install' is launched.
NewNpmLaunches ==
    {i \in (Len(emitted) + 1)..Len(emitted') :
        emitted'[i] = LogEv(LA("Streaming command", "npm install"))}
NpmLaunches ==
    {i \in 1..Len(emitted) : emitted[i] = LogEv(LA("Streaming command", "npm install"))}

\* C26: the sections run in the order preparation, Git, runtime (with the path
\* refresh), archive (with its cleanup), 'npm install', template, config: the
\* run only moves forward, a section starts only when every section before it
\* has completed, and none starts twice.  'npm install' is launched only in
\* its section, with the project folder verified and npm resolving on the
\* search path, and never a second time; config.json is written only after
\* 'npm install' returned True.
C26_FixedOrderOnce ==
    [][/\ pc' # pc => Rank(pc) < Rank(pc')
       /\ (pc' # pc /\ pc' \in Sections) =>
              /\ Rank(pc') = Rank(pc) + 1
              /\ hist'.done = Before(pc') /\ hist'.raisedAt = ""
       /\ (pc' # pc /\ pc' = "except") =>
              /\ pc \in Sections
              /\ hist'.done = Before(pc) /\ hist'.raisedAt = pc
       /\ (pc' # pc /\ pc' = "finally" /\ pc # "except") =>
              pc = "config" /\ hist'.done = Sections
       /\ hist.npm # "none" => hist'.npm = hist.npm
       /\ hist'.npm # hist.npm =>
              /\ pc = "npm" /\ hist.npm = "none"
              /\ "archive" \in hist.done /\ isdir(fs.folder)
              /\ Logged(L("Verified extracted folder"))
              /\ which("npm", onPath, dirHas)
              /\ Cardinality(NewNpmLaunches) = 1
       /\ hist'.npm = hist.npm => NewNpmLaunches = {}
       /\ fs'.config # fs.config =>
              /\ pc = "config" /\ hist.npm = "ok" /\ "rename" \in hist.done
              /\ Logged(L("'npm install' stream completed successfully."))]_vars

C26_Witness ==
    /\ pc = "done" /\ hist.done = Sections /\ hist.npm = "ok"
    /\ hist.rename = "renamed" /\ fs.config = File(config_document)
    /\ Cardinality(NpmLaunches) = 1

\* C27 as claimed: when the tool resolves and a version flag is requested,
\* is_tool_installed runs the version query through run_command: the child
\* is launched and its 'Running command' line is logged before the probe
\* returns True.
C27_VersionQueryLaunched ==
    (/\ Returned("is_tool_installed")
     /\ which(hist.tool, onPath, dirHas)
     /\ hist.flag # "None") =>
        /\ hist.ret = "True"
        /\ hist.launched
        /\ InSink(LA("Running command", hist.tool))

\* The worker's log signals the main thread has handled.
HandledLogs == Logs(SubSeq(emitted, 1, delivered))

\* C28 as claimed: logMessage never raises: when installation.log cannot be
\* appended to, the line is in the widget, the write error is recorded there
\* too, and the call returns, so that no exception leaves a slot of the
\* window.
C28_LogMessageNeverRaises ==
    /\ app # "aborted"
    /\ Len(WorkerLinesShown) = Len(HandledLogs)
    /\ (~logFileOk /\ logText # <<>>) =>
          Last(logText) = stamped(L("Error writing to installation log file"))

\* C29 as claimed: after a successful run the close that finish_installation
\* performs is accepted without the 'Installation is in progress' question:
\* closeEvent never finds the thread reference set and the thread running,
\* and the window is closed.
C29_FinishCloseNeverAsks ==
    ui.outcome = "succeeded" => ~ui.finishConfirm /\ ~ui.visible

\* The launcher has been started again.
Restarted == app \in {"installer", "main_shown", "main_failed"}

\* C30 as claimed: after a run that ended with finished(True) the next start
\* of the launcher finds config.json, does not show the installer, and builds
\* the main window from the config; every key it reads is one the
\* finalization step wrote.
C30_CallerReadsWhatInstallerWrote ==
    (Restarted /\ ui.outcome = "succeeded") =>
        /\ fs.config.exists
        /\ app = "main_shown"
        /\ main_reads \subseteq Keys(config_document)

====
